---- MODULE Spec2Model ----
(***************************************************************************)
(* Model of src/inventory_app.py: the MongoDB-backed inventory collection, *)
(* the session's undo/redo stacks and the user actions that change them    *)
(* (add item, Save All Changes, CSV import, Undo, Redo).                   *)
(*                                                                         *)
(* Each action is one Streamlit script run handling one widget event.      *)
(* Operators named after Python functions take the part of the program     *)
(* state they read and return a record with the part they write.           *)
(***************************************************************************)
EXTENDS Integers, Sequences, FiniteSets, TLC

VARIABLES
    inventory_collection,  \* sequence of documents, in insertion order
    nextId,                \* next ObjectId the driver hands out
    undo_stack,            \* st.session_state.undo_stack
    redo_stack,            \* st.session_state.redo_stack
    now,                   \* datetime.datetime.now(), one tick per script run
    lastOp,                \* the widget event the last script run handled
    outcome,               \* what that run reported to the user
    report,                \* the counts in the Save All Changes message
    ops,                   \* store operations the last run issued, in order
    base,                  \* the collection those operations started from
    prev,                  \* program state before the last run, and the run before it
    args,                  \* the inputs the last run was given
    current_order,         \* st.session_state.current_order
    confirm_clear_order    \* st.session_state.confirm_clear_order

vars == <<inventory_collection, nextId, undo_stack, redo_stack, now,
          lastOp, outcome, report, ops, base, prev, args,
          current_order, confirm_clear_order>>

-----------------------------------------------------------------------------
(* Bounds *)

MaxTime == 5        \* script runs explored

-----------------------------------------------------------------------------
(* Values *)

None == -1          \* Python None (absent per_package / per_box / per_case)
NaN == -2           \* pandas NaN / missing cell
NonNumeric == -3    \* a cell holding text where a number is expected
NaNStr == "NaN"     \* pandas NaN / missing cell in a text column
NaT == "NaT"        \* pandas NaT: a Last Checked cell that is no date
Today == "2024-02-02"   \* datetime.date.today()

UndoCap == 10       \* "Keep only last 10 states"

\* The strings the model uses, in Python's str ordering (code-point order).
StringOrder == <<"", " W1", "2024-01-01", "2024-02-02", "Acme", "Bolt",
                 "Gadget", "NA", "NaN", "NaT", "W1", "W2", "Widget", "nan">>

Rank(s) == CHOOSE i \in 1..Len(StringOrder) : StringOrder[i] = s

Last(s) == s[Len(s)]
Front(s) == SubSeq(s, 1, Len(s) - 1)

-----------------------------------------------------------------------------
(* The collection: documents, the unique index, reads *)

\* Mutant: the unique index on product_id was never created
DuplicateKey_NoIndex(coll, pid, exceptId) == FALSE

\* collection.create_index("product_id", unique=True)
DuplicateKey(coll, pid, exceptId) ==
    \E i \in 1..Len(coll) : coll[i].product_id = pid /\ coll[i].id # exceptId

\* 0 or None -> None
NoneIfZero(v) == IF v = 0 \/ v = None THEN None ELSE v

\* Mutant: a rejected insert still leaves its document behind
add_item_PartialWrite(coll, nid, t, brand, name, pid, min_qty, current_amount, per_package, per_box, per_case, cost, last_checked) ==
    LET document ==
            [id |-> nid, brand |-> brand, product_name |-> name,
             product_id |-> pid, minimum_individual_quantity |-> min_qty,
             current_amount |-> current_amount,
             per_package |-> NoneIfZero(per_package),
             per_box |-> NoneIfZero(per_box),
             per_case |-> NoneIfZero(per_case),
             cost |-> cost, last_checked |-> last_checked,
             created_at |-> t, updated_at |-> t]
    IN  [coll |-> Append(coll, document), nextId |-> nid + 1,
         ok |-> ~DuplicateKey(coll, pid, None)]

add_item(coll, nid, t, brand, name, pid, min_qty, current_amount, per_package, per_box, per_case, cost, last_checked) ==
    LET document ==
            [id |-> nid,
             brand |-> brand,
             product_name |-> name,
             product_id |-> pid,
             minimum_individual_quantity |-> min_qty,
             current_amount |-> current_amount,
             per_package |-> NoneIfZero(per_package),
             per_box |-> NoneIfZero(per_box),
             per_case |-> NoneIfZero(per_case),
             cost |-> cost,
             last_checked |-> last_checked,
             created_at |-> t,
             updated_at |-> t]
    IN  IF DuplicateKey(coll, pid, None)
        THEN \* insert_one raises DuplicateKeyError; caught, st.error, return False
             [coll |-> coll, nextId |-> nid + 1, ok |-> FALSE]
        ELSE [coll |-> Append(coll, document), nextId |-> nid + 1, ok |-> TRUE]

\* sort([("brand", 1), ("product_name", 1)]): a precedes b
SortsBefore(a, b) ==
    \/ Rank(a.brand) < Rank(b.brand)
    \/ /\ a.brand = b.brand
       /\ Rank(a.product_name) < Rank(b.product_name)

RECURSIVE InsertSorted(_, _)
InsertSorted(sorted, d) ==
    IF sorted = <<>> THEN <<d>>
    ELSE IF SortsBefore(d, Last(sorted))
         THEN Append(InsertSorted(Front(sorted), d), Last(sorted))
         ELSE Append(sorted, d)

RECURSIVE SortDocs(_)
SortDocs(docs) ==
    IF docs = <<>> THEN <<>>
    ELSE InsertSorted(SortDocs(Front(docs)), Last(docs))

\* Case-insensitive substring test of the search box text against one field.
Lower(s) ==
    CASE s = "W1" -> "w1"
      [] s = " W1" -> " w1"
      [] s = "W2" -> "w2"
      [] s = "Acme" -> "acme"
      [] s = "Bolt" -> "bolt"
      [] s = "Widget" -> "widget"
      [] s = "Gadget" -> "gadget"
      [] OTHER -> s

Contains(s, sub) ==
    \/ sub = ""
    \/ s = sub
    \/ sub = "w1" /\ s = " w1"

RegexMatch(field, filter_text) == Contains(Lower(field), Lower(filter_text))

ResultRow(doc) ==
    <<doc.brand, doc.product_name, doc.product_id,
      doc.minimum_individual_quantity, doc.current_amount,
      doc.per_package, doc.per_box, doc.per_case,
      doc.cost, doc.last_checked, doc.id>>

get_inventory(coll, filter_text) ==
    LET found == IF filter_text # ""
                 THEN SelectSeq(coll, LAMBDA d :
                          \/ RegexMatch(d.brand, filter_text)
                          \/ RegexMatch(d.product_name, filter_text)
                          \/ RegexMatch(d.product_id, filter_text))
                 ELSE coll
        cursor == SortDocs(found)
    IN  [i \in 1..Len(cursor) |-> ResultRow(cursor[i])]

\* insert_many(documents), ordered: stops at the first duplicate key and raises
RECURSIVE insert_many(_, _, _)
insert_many(coll, documents, nid) ==
    IF documents = <<>> THEN [coll |-> coll, nextId |-> nid, raised |-> FALSE]
    ELSE IF DuplicateKey(coll, documents[1].product_id, None)
         THEN [coll |-> coll, nextId |-> nid + Len(documents), raised |-> TRUE]
         ELSE insert_many(Append(coll, [documents[1] EXCEPT !.id = nid]),
                          Tail(documents), nid + 1)

\* Mutant: only the first id of the list is deleted
delete_items_FirstOnly(coll, ids) ==
    IF ids = <<>>
    THEN [coll |-> coll, ok |-> FALSE]
    ELSE [coll |-> SelectSeq(coll, LAMBDA d : d.id # ids[1]), ok |-> TRUE]

delete_items(coll, ids) ==
    IF ids = <<>>
    THEN [coll |-> coll, ok |-> FALSE]
    ELSE [coll |-> SelectSeq(coll, LAMBDA d :
                       ~(\E k \in 1..Len(ids) : ids[k] = d.id)),
          ok |-> TRUE]

\* Mutant: the write stamps updated_at on every document of the collection
update_item_StampsAll(coll, t, item_id, brand, product_name, product_id, min_qty, current_amount, per_package, per_box, per_case, cost, last_checked) ==
    IF \E i \in 1..Len(coll) : coll[i].id = item_id
    THEN IF DuplicateKey(coll, product_id, item_id)
         THEN [coll |-> coll, ok |-> FALSE]
         ELSE [coll |-> [i \in 1..Len(coll) |->
                            IF coll[i].id = item_id
                            THEN [coll[i] EXCEPT
                                    !.brand = brand,
                                    !.product_name = product_name,
                                    !.product_id = product_id,
                                    !.minimum_individual_quantity = min_qty,
                                    !.current_amount = current_amount,
                                    !.per_package = NoneIfZero(per_package),
                                    !.per_box = NoneIfZero(per_box),
                                    !.per_case = NoneIfZero(per_case),
                                    !.cost = cost,
                                    !.last_checked = last_checked,
                                    !.updated_at = t]
                            ELSE [coll[i] EXCEPT !.updated_at = t]],
               ok |-> TRUE]
    ELSE [coll |-> coll, ok |-> TRUE]

update_item(coll, t, item_id, brand, product_name, product_id, min_qty, current_amount, per_package, per_box, per_case, cost, last_checked) ==
    IF \E i \in 1..Len(coll) : coll[i].id = item_id
    THEN IF DuplicateKey(coll, product_id, item_id)
         THEN \* update_one raises DuplicateKeyError; caught, return False
              [coll |-> coll, ok |-> FALSE]
         ELSE [coll |-> [i \in 1..Len(coll) |->
                            IF coll[i].id = item_id
                            THEN [coll[i] EXCEPT
                                    !.brand = brand,
                                    !.product_name = product_name,
                                    !.product_id = product_id,
                                    !.minimum_individual_quantity = min_qty,
                                    !.current_amount = current_amount,
                                    !.per_package = NoneIfZero(per_package),
                                    !.per_box = NoneIfZero(per_box),
                                    !.per_case = NoneIfZero(per_case),
                                    !.cost = cost,
                                    !.last_checked = last_checked,
                                    !.updated_at = t]
                            ELSE coll[i]],
               ok |-> TRUE]
    ELSE \* update_one matches nothing; the function still returns True
         [coll |-> coll, ok |-> TRUE]

-----------------------------------------------------------------------------
(* CSV import *)

required_columns == {"Brand", "Product Name", "Product ID", "Min Individual Qty",
                     "Current Amount", "Cost", "Last Checked"}

\* row.get(col, None)
RowGet(row, col) == IF col \in DOMAIN row THEN row[col] ELSE None

\* pd.isna on a numeric cell
IsNaNum(v) == v = None \/ v = NaN

\* str(cell) of a text cell
Str(v) == IF v = NaNStr THEN "nan" ELSE v

\* int(cell) / float(cell) raise on a missing or non-numeric cell
IntRaises(v) == v = NaN \/ v = NonNumeric

ImportDocument(row, t) ==
    LET per_package == RowGet(row, "Per Package")
        per_box == RowGet(row, "Per Box")
        per_case == RowGet(row, "Per Case")
    IN  [id |-> None,
         brand |-> Str(row["Brand"]),
         product_name |-> Str(row["Product Name"]),
         product_id |-> Str(row["Product ID"]),
         minimum_individual_quantity |-> row["Min Individual Qty"],
         current_amount |-> row["Current Amount"],
         per_package |-> IF IsNaNum(per_package) THEN None ELSE per_package,
         per_box |-> IF IsNaNum(per_box) THEN None ELSE per_box,
         per_case |-> IF IsNaNum(per_case) THEN None ELSE per_case,
         cost |-> IF row["Cost"] = NaN THEN 0 ELSE row["Cost"],
         last_checked |-> Str(row["Last Checked"]),
         created_at |-> t,
         updated_at |-> t]

ImportRowRaises(row) ==
    \/ RowGet(row, "Per Package") = NonNumeric
    \/ RowGet(row, "Per Box") = NonNumeric
    \/ RowGet(row, "Per Case") = NonNumeric
    \/ IntRaises(row["Min Individual Qty"])
    \/ IntRaises(row["Current Amount"])
    \/ row["Cost"] = NonNumeric

\* Mutant: the collection is cleared before the columns are looked at
import_csv_ClearFirst(coll, nid, t, df) ==
    IF ~(required_columns \subseteq df.columns)
    THEN [coll |-> <<>>, nextId |-> nid, ok |-> FALSE, error |-> "missing columns"]
    ELSE IF \E i \in 1..Len(df.rows) : ImportRowRaises(df.rows[i])
         THEN [coll |-> <<>>, nextId |-> nid, ok |-> FALSE, error |-> "exception"]
         ELSE LET documents == [i \in 1..Len(df.rows) |->
                                    ImportDocument(df.rows[i], t)]
                  r == insert_many(<<>>, documents, nid)
              IN  [coll |-> r.coll, nextId |-> r.nextId, ok |-> ~r.raised,
                   error |-> IF r.raised THEN "exception" ELSE ""]

import_csv(coll, nid, t, df) ==
    IF ~(required_columns \subseteq df.columns)
    THEN [coll |-> coll, nextId |-> nid, ok |-> FALSE, error |-> "missing columns"]
    ELSE \* delete_many({}) has run when a row fails to convert
         IF \E i \in 1..Len(df.rows) : ImportRowRaises(df.rows[i])
         THEN [coll |-> <<>>, nextId |-> nid, ok |-> FALSE, error |-> "exception"]
         ELSE LET documents == [i \in 1..Len(df.rows) |->
                                    ImportDocument(df.rows[i], t)]
                  r == insert_many(<<>>, documents, nid)
              IN  [coll |-> r.coll, nextId |-> r.nextId, ok |-> ~r.raised,
                   error |-> IF r.raised THEN "exception" ELSE ""]

-----------------------------------------------------------------------------
(* Undo / redo *)

\* Mutant: every row is unpacked as the oldest format, which has no cost
HistoryDocument_CostLost(item, t) ==
    [id |-> None,
     brand |-> item[1],
     product_name |-> item[2],
     product_id |-> item[3],
     minimum_individual_quantity |-> item[4],
     current_amount |-> item[5],
     per_package |-> IF Len(item) = 11 THEN item[6] ELSE None,
     per_box |-> IF Len(item) = 11 THEN item[7] ELSE None,
     per_case |-> IF Len(item) = 11 THEN item[8] ELSE None,
     cost |-> 0,
     last_checked |-> item[Len(item) - 1],
     created_at |-> t,
     updated_at |-> t]

\* Mutant: a row of 10 fields is unpacked like a row of 8
HistoryDocument_TenAsEight(item, t) ==
    LET n == Len(item)
        per_package == IF n = 11 THEN item[6] ELSE None
        per_box == IF n = 11 THEN item[7] ELSE None
        per_case == IF n = 11 THEN item[8] ELSE None
        cost == IF n = 11 THEN item[9]
                ELSE IF n = 10 \/ n = 8 THEN item[6] ELSE 0
        last_checked == IF n = 11 THEN item[10]
                        ELSE IF n = 10 THEN item[9]
                        ELSE IF n = 8 THEN item[7] ELSE item[6]
    IN  [id |-> None,
         brand |-> item[1],
         product_name |-> item[2],
         product_id |-> item[3],
         minimum_individual_quantity |-> item[4],
         current_amount |-> item[5],
         per_package |-> per_package,
         per_box |-> per_box,
         per_case |-> per_case,
         cost |-> cost,
         last_checked |-> last_checked,
         created_at |-> t,
         updated_at |-> t]

\* One history row, in any of the four positional formats, as a document.
HistoryDocument(item, t) ==
    LET n == Len(item)
        per_package == IF n = 11 THEN item[6] ELSE None
        per_box == IF n = 11 THEN item[7] ELSE IF n = 10 THEN item[6] ELSE None
        per_case == IF n = 11 THEN item[8] ELSE IF n = 10 THEN item[7] ELSE None
        cost == IF n = 11 THEN item[9]
                ELSE IF n = 10 THEN item[8]
                ELSE IF n = 8 THEN item[6] ELSE 0
        last_checked == IF n = 11 THEN item[10]
                        ELSE IF n = 10 THEN item[9]
                        ELSE IF n = 8 THEN item[7] ELSE item[6]
    IN  [id |-> None,
         brand |-> item[1],
         product_name |-> item[2],
         product_id |-> item[3],
         minimum_individual_quantity |-> item[4],
         current_amount |-> item[5],
         per_package |-> per_package,
         per_box |-> per_box,
         per_case |-> per_case,
         cost |-> cost,
         last_checked |-> last_checked,
         created_at |-> t,
         updated_at |-> t]

\* Mutant: the collection is cleared but the documents are never inserted
restore_state_from_history_NoInsert(nid, t, state_data) ==
    [coll |-> <<>>, nextId |-> nid, ok |-> TRUE]

restore_state_from_history(nid, t, state_data) ==
    LET documents == [i \in 1..Len(state_data) |-> HistoryDocument(state_data[i], t)]
        \* delete_many({}) then insert_many(documents)
        r == insert_many(<<>>, documents, nid)
    IN  [coll |-> r.coll, nextId |-> r.nextId, ok |-> ~r.raised]

\* The dict pushed on a stack.
HistoryState(coll, t, action) ==
    [data |-> get_inventory(coll, ""), timestamp |-> t, action |-> action]

\* save_state_to_history as it stands in the source: the current state goes
\* to redo_stack, the newest undo entry is popped and restored.  The pop
\* raises IndexError on an empty undo_stack, after the append.
save_state_to_history(coll, nid, undo, redo, t) ==
    LET current_state == HistoryState(coll, t, "save")
        redo1 == Append(redo, current_state)
    IN  IF undo = <<>>
        THEN [coll |-> coll, nextId |-> nid, undo |-> undo, redo |-> redo1,
              raised |-> TRUE, ok |-> FALSE]
        ELSE LET last_state == Last(undo)
                 r == restore_state_from_history(nid, t, last_state.data)
             IN  [coll |-> r.coll, nextId |-> r.nextId, undo |-> Front(undo),
                  redo |-> redo1, raised |-> FALSE, ok |-> r.ok]

\* Mutant: the pre-redo state is not pushed on undo_stack
perform_redo_NoPush(coll, nid, undo, redo, t) ==
    IF redo = <<>>
    THEN [coll |-> coll, nextId |-> nid, undo |-> undo, redo |-> redo, ok |-> FALSE]
    ELSE LET r == restore_state_from_history(nid, t, Last(redo).data)
         IN  [coll |-> r.coll, nextId |-> r.nextId,
              undo |-> undo, redo |-> Front(redo), ok |-> r.ok]

perform_redo(coll, nid, undo, redo, t) ==
    IF redo = <<>>
    THEN [coll |-> coll, nextId |-> nid, undo |-> undo, redo |-> redo, ok |-> FALSE]
    ELSE LET current_state == HistoryState(coll, t, "current")
             next_state == Last(redo)
             r == restore_state_from_history(nid, t, next_state.data)
         IN  [coll |-> r.coll, nextId |-> r.nextId,
              undo |-> Append(undo, current_state), redo |-> Front(redo),
              ok |-> r.ok]

\* The statements of perform_undo after the point where the source stops:
\* push the current state on redo_stack, pop the newest undo entry, restore it.
perform_undo_rest(nid, undo, redo, t, current_state) ==
    LET last_state == Last(undo)
        r == restore_state_from_history(nid, t, last_state.data)
    IN  [coll |-> r.coll, nextId |-> r.nextId,
         undo |-> Front(undo), redo |-> Append(redo, current_state), ok |-> r.ok]

\* Mutant: the current state is pushed on redo_stack before the emptiness test
perform_undo_PushFirst(coll, nid, undo, redo, t) ==
    LET current_state == HistoryState(coll, t, "current")
    IN  IF undo = <<>>
        THEN [coll |-> coll, nextId |-> nid, undo |-> undo,
              redo |-> Append(redo, current_state), ok |-> FALSE]
        ELSE perform_undo_rest(nid, undo, redo, t, current_state)

perform_undo(coll, nid, undo, redo, t) ==
    IF undo = <<>>
    THEN [coll |-> coll, nextId |-> nid, undo |-> undo, redo |-> redo, ok |-> FALSE]
    ELSE LET current_state == HistoryState(coll, t, "current")
         IN  perform_undo_rest(nid, undo, redo, t, current_state)

-----------------------------------------------------------------------------
(* User actions *)

\* What the "Add New Item" form can submit.
FormInputs ==
    { [brand |-> "Acme", product_name |-> "Widget", product_id |-> "W1",
       min_qty |-> 5, current_amount |-> 3,
       per_package |-> None, per_box |-> None, per_case |-> None,
       cost |-> 2, last_checked |-> "2024-01-01"],
      [brand |-> "Acme", product_name |-> "Gadget", product_id |-> "W2",
       min_qty |-> 0, current_amount |-> 0,
       per_package |-> 0, per_box |-> 6, per_case |-> None,
       cost |-> 1, last_checked |-> "2024-01-01"],
      [brand |-> "Bolt", product_name |-> "Widget", product_id |-> "W1",
       min_qty |-> 1, current_amount |-> 10,
       per_package |-> None, per_box |-> None, per_case |-> 12,
       cost |-> 0, last_checked |-> "2024-02-02"],
      [brand |-> "", product_name |-> "Widget", product_id |-> "W2",
       min_qty |-> 1, current_amount |-> 0,
       per_package |-> None, per_box |-> None, per_case |-> None,
       cost |-> 0, last_checked |-> "2024-01-01"] }

Snapshot == [coll |-> inventory_collection, undo |-> undo_stack,
             redo |-> redo_stack, op |-> lastOp, outcome |-> outcome,
             ops |-> ops, order |-> current_order]

Remember == prev' = [last |-> Snapshot, before |-> prev.last]

NoReport == [added |-> 0, deleted |-> 0, updated |-> 0]

NoArgs == [none |-> TRUE]

\* A run of the inventory tab leaves the order tab's session state alone
OrderQuiet == UNCHANGED <<current_order, confirm_clear_order>>

\* Mutant: the form is accepted whatever its required fields hold
RequiredFilled_Always(brand, product_name, product_id) == TRUE

\* if brand and product_name and product_id
RequiredFilled(brand, product_name, product_id) ==
    brand # "" /\ product_name # "" /\ product_id # ""

\* "Add Item" submitted (the form handler)
AddItemSubmit ==
    /\ now < MaxTime
    /\ now' = now + 1
    /\ lastOp' = "add"
    /\ Remember
    /\ OrderQuiet
    /\ report' = NoReport
    /\ \E f \in FormInputs :
      /\ args' = f
      /\ IF RequiredFilled(f.brand, f.product_name, f.product_id)
        THEN \E h \in {save_state_to_history(inventory_collection, nextId,
                                               undo_stack, redo_stack, now)} :
                 IF h.raised
                 THEN \* IndexError leaves the handler; add_item is not reached
                      /\ inventory_collection' = h.coll
                      /\ nextId' = h.nextId
                      /\ undo_stack' = h.undo
                      /\ redo_stack' = h.redo
                      /\ outcome' = "uncaught exception"
                      /\ ops' = <<>>
                      /\ base' = h.coll
                 ELSE \E a \in {add_item(h.coll, h.nextId, now, f.brand,
                                           f.product_name, f.product_id, f.min_qty,
                                           f.current_amount, f.per_package,
                                           f.per_box, f.per_case, f.cost,
                                           f.last_checked)} :
                          /\ inventory_collection' = a.coll
                          /\ nextId' = a.nextId
                          /\ undo_stack' = h.undo
                          /\ redo_stack' = h.redo
                          /\ outcome' = IF a.ok THEN "added" ELSE "failed to add"
                          /\ base' = h.coll
                          /\ ops' = <<[op |-> "insert", id |-> None,
                                       pid |-> f.product_id, ok |-> a.ok]>>
        ELSE /\ outcome' = "required fields missing"
             /\ ops' = <<>>
             /\ base' = inventory_collection
             /\ UNCHANGED <<inventory_collection, nextId, undo_stack, redo_stack>>

\* The parsed CSV files (pd.read_csv) the user can upload.
CsvRow(brand, name, pid, min_qty, current_amount, cost, last_checked) ==
    [c \in required_columns |->
        CASE c = "Brand" -> brand
          [] c = "Product Name" -> name
          [] c = "Product ID" -> pid
          [] c = "Min Individual Qty" -> min_qty
          [] c = "Current Amount" -> current_amount
          [] c = "Cost" -> cost
          [] c = "Last Checked" -> last_checked]

WithPer(row, per_package, per_box, per_case) ==
    [c \in DOMAIN row \cup {"Per Package", "Per Box", "Per Case"} |->
        CASE c = "Per Package" -> per_package
          [] c = "Per Box" -> per_box
          [] c = "Per Case" -> per_case
          [] OTHER -> row[c]]

WithoutColumn(row, col) == [c \in DOMAIN row \ {col} |-> row[c]]

GoodRows ==
    << WithPer(CsvRow("Bolt", "Gadget", "W2", 2, 1, 3, "2024-01-01"), NaN, 6, 0),
       WithPer(CsvRow("Acme", "Widget", "W1", 5, 3, 2, "2024-01-01"), NaN, NaN, 4) >>

CsvFiles ==
    { \* a well-formed export with the optional columns
      [columns |-> required_columns \cup {"Per Package", "Per Box", "Per Case"},
       rows |-> GoodRows],
      \* the Cost column is missing
      [columns |-> required_columns \ {"Cost"},
       rows |-> << WithoutColumn(CsvRow("Acme", "Widget", "W1", 5, 3, 2,
                                        "2024-01-01"), "Cost") >>],
      \* the second row repeats the product id of the first
      [columns |-> required_columns,
       rows |-> << CsvRow("Acme", "Widget", "W1", 5, 3, 2, "2024-01-01"),
                   CsvRow("Bolt", "Widget", "W1", 1, 1, 1, "2024-02-02") >>],
      \* the second row has a non-numeric quantity
      [columns |-> required_columns,
       rows |-> << CsvRow("Acme", "Widget", "W1", 5, 3, 2, "2024-01-01"),
                   CsvRow("Acme", "Gadget", "W2", NonNumeric, 1, 1,
                          "2024-01-01") >>] }

\* A file appears in the sidebar uploader
ImportUpload ==
    /\ now < MaxTime
    /\ now' = now + 1
    /\ lastOp' = "import"
    /\ Remember
    /\ OrderQuiet
    /\ report' = NoReport
    /\ base' = inventory_collection
    /\ \E df \in CsvFiles :
        \E m \in {import_csv(inventory_collection, nextId, now, df)} :
          /\ args' = df
          /\ IF m.ok
            THEN \E h \in {save_state_to_history(m.coll, m.nextId, undo_stack,
                                                   redo_stack, now)} :
                     /\ inventory_collection' = h.coll
                     /\ nextId' = h.nextId
                     /\ undo_stack' = h.undo
                     /\ redo_stack' = h.redo
                     /\ outcome' = IF h.raised THEN "uncaught exception"
                                   ELSE "imported"
                     /\ ops' = <<[op |-> "import", id |-> None, pid |-> "",
                                   ok |-> TRUE]>>
            ELSE /\ inventory_collection' = m.coll
                 /\ nextId' = m.nextId
                 /\ outcome' = IF m.error = "missing columns"
                               THEN "missing columns" ELSE "error importing"
                 /\ ops' = <<[op |-> "import", id |-> None, pid |-> "",
                               ok |-> FALSE]>>
                 /\ UNCHANGED <<undo_stack, redo_stack>>

-----------------------------------------------------------------------------
(* The inventory table and Save All Changes *)

\* str.strip()
Strip(s) == IF s = " W1" THEN "W1" ELSE s

ValidDates == {"2024-01-01", "2024-02-02"}

\* pd.to_datetime(..., errors='coerce').dt.date
ToDate(s) == IF s \in ValidDates THEN s ELSE NaT

\* pandas infers the dtype of a Per ... column from all its values: a column
\* of None only stays object (None); None next to numbers becomes float NaN.
PerCell(inventory, k, v) ==
    IF v # None THEN v
    ELSE IF \A i \in 1..Len(inventory) : inventory[i][k] = None
         THEN None ELSE NaN

\* df: the table as rendered from get_inventory(search)
DataFrame(inventory) ==
    [i \in 1..Len(inventory) |->
        [Brand |-> inventory[i][1],
         ProductName |-> inventory[i][2],
         ProductID |-> inventory[i][3],
         MinQty |-> inventory[i][4],
         CurrentAmount |-> inventory[i][5],
         PerPackage |-> PerCell(inventory, 6, inventory[i][6]),
         PerBox |-> PerCell(inventory, 7, inventory[i][7]),
         PerCase |-> PerCell(inventory, 8, inventory[i][8]),
         Cost |-> inventory[i][9],
         LastChecked |-> ToDate(inventory[i][10]),
         id |-> inventory[i][11]]]

\* int(cell) if pd.notna(cell) and cell > 0 else None
PositiveOrNone(v) == IF ~IsNaNum(v) /\ v > 0 THEN v ELSE None

\* The converted values of one edited row
Converted(edited_row) ==
    [brand |-> Strip(Str(edited_row.Brand)),
     product_name |-> Strip(Str(edited_row.ProductName)),
     product_id |-> Strip(Str(edited_row.ProductID)),
     min_qty |-> IF edited_row.MinQty # NaN THEN edited_row.MinQty ELSE 0,
     current_amount |-> IF edited_row.CurrentAmount # NaN
                        THEN edited_row.CurrentAmount ELSE 0,
     per_package |-> PositiveOrNone(edited_row.PerPackage),
     per_box |-> PositiveOrNone(edited_row.PerBox),
     per_case |-> PositiveOrNone(edited_row.PerCase),
     cost |-> IF edited_row.Cost # NaN THEN edited_row.Cost ELSE 0,
     last_checked_str |-> IF edited_row.LastChecked # NaT
                          THEN edited_row.LastChecked ELSE Today]

\* orig != value on a Per ... cell: NaN differs from everything
PerDiffers(orig, v) == orig = NaN \/ orig # v

needs_update(orig_data, c) ==
    \/ Strip(Str(orig_data.Brand)) # c.brand
    \/ Strip(Str(orig_data.ProductName)) # c.product_name
    \/ Strip(Str(orig_data.ProductID)) # c.product_id
    \/ orig_data.MinQty # c.min_qty
    \/ orig_data.CurrentAmount # c.current_amount
    \/ PerDiffers(orig_data.PerPackage, c.per_package)
    \/ PerDiffers(orig_data.PerBox, c.per_box)
    \/ PerDiffers(orig_data.PerCase, c.per_case)
    \/ orig_data.Cost # c.cost
    \/ orig_data.LastChecked # c.last_checked_str

\* Mutant: an original row already processed can be matched again
MatchingIndex_Rematch(original_data, processed_ids, product_id) ==
    LET cand == {k \in 1..Len(original_data) :
                    Strip(Str(original_data[k].ProductID)) = product_id}
    IN  IF cand = {} THEN 0 ELSE CHOOSE k \in cand : \A j \in cand : k <= j

\* The first original row, in table order, not yet processed and with the
\* same trimmed Product ID; 0 when there is none.
MatchingIndex(original_data, processed_ids, product_id) ==
    LET cand == {k \in 1..Len(original_data) :
                    /\ original_data[k].id \notin processed_ids
                    /\ Strip(Str(original_data[k].ProductID)) = product_id}
    IN  IF cand = {} THEN 0 ELSE CHOOSE k \in cand : \A j \in cand : k <= j

\* One pass of the loop over edited_df.iterrows()
ProcessRow(edited_row, original_data, t, acc) ==
    IF \/ edited_row.Brand = NaNStr
       \/ edited_row.ProductName = NaNStr
       \/ edited_row.ProductID = NaNStr
    THEN acc
    ELSE
      LET c == Converted(edited_row)
          m == MatchingIndex(original_data, acc.processed_ids, c.product_id)
      IN
      IF m # 0
      THEN LET matching_id == original_data[m].id
               processed == acc.processed_ids \cup {matching_id}
           IN  IF needs_update(original_data[m], c)
               THEN LET u == update_item(acc.coll, t, matching_id, c.brand,
                                 c.product_name, c.product_id, c.min_qty,
                                 c.current_amount, c.per_package, c.per_box,
                                 c.per_case, c.cost, c.last_checked_str)
                    IN  [acc EXCEPT
                           !.coll = u.coll,
                           !.processed_ids = processed,
                           !.changes_made = acc.changes_made \/ u.ok,
                           !.ops = Append(acc.ops,
                               [op |-> "update", id |-> matching_id,
                                pid |-> c.product_id, ok |-> u.ok])]
               ELSE [acc EXCEPT !.processed_ids = processed]
      ELSE LET a == add_item(acc.coll, acc.nextId, t, c.brand,
                             c.product_name, c.product_id, c.min_qty,
                             c.current_amount, c.per_package, c.per_box,
                             c.per_case, c.cost, c.last_checked_str)
           IN  [acc EXCEPT
                  !.coll = a.coll,
                  !.nextId = a.nextId,
                  !.changes_made = acc.changes_made \/ a.ok,
                  !.ops = Append(acc.ops,
                      [op |-> "insert", id |-> None,
                       pid |-> c.product_id, ok |-> a.ok])]

\* The loop over edited_df.iterrows(): the rows in order, each pass starting
\* from the state the pass before left
RECURSIVE ProcessRows(_, _, _, _)
ProcessRows(edited_df, original_data, t, acc) ==
    IF edited_df = <<>> THEN acc
    ELSE CHOOSE r \in
            { ProcessRows(Tail(edited_df), original_data, t, acc1) :
                acc1 \in {ProcessRow(Head(edited_df), original_data, t, acc)} } :
            TRUE

\* Deleted items and the message, after the loop has left state p
HandleDeleted(p, df, edited_df) ==
    LET unprocessed == SelectSeq(df, LAMBDA r : r.id \notin p.processed_ids)
        deleted_ids == [i \in 1..Len(unprocessed) |-> unprocessed[i].id]
        d == delete_items(p.coll, deleted_ids)
        changes_made == p.changes_made \/ d.ok
        new_items_count == Len(edited_df) - Cardinality(p.processed_ids)
    IN  [coll |-> d.coll,
         nextId |-> p.nextId,
         changes_made |-> changes_made,
         ops |-> IF deleted_ids # <<>>
                 THEN Append(p.ops, [op |-> "delete", id |-> None,
                                     pid |-> "", ok |-> d.ok,
                                     ids |-> deleted_ids])
                 ELSE p.ops,
         report |-> IF changes_made
                    THEN [added |-> IF new_items_count > 0
                                    THEN new_items_count ELSE 0,
                          deleted |-> Len(deleted_ids),
                          updated |-> Cardinality(p.processed_ids)]
                    ELSE NoReport]

\* The body of the Save All Changes handler after save_state_to_history()
SaveChanges(coll, nid, t, df, edited_df) ==
    CHOOSE r \in
        { HandleDeleted(p, df, edited_df) :
            p \in {ProcessRows(edited_df, df, t,
                       [coll |-> coll, nextId |-> nid, processed_ids |-> {},
                        changes_made |-> FALSE, ops |-> <<>>])} } :
        TRUE

\* What the user can do to one row of the table before saving
RowEdits == {"keep", "amount", "blank", "rekey", "drop"}

OtherPid(pid) == IF pid = "W2" THEN "W1" ELSE "W2"

DisplayRow(r) ==
    [Brand |-> r.Brand, ProductName |-> r.ProductName, ProductID |-> r.ProductID,
     MinQty |-> r.MinQty, CurrentAmount |-> r.CurrentAmount,
     PerPackage |-> r.PerPackage, PerBox |-> r.PerBox, PerCase |-> r.PerCase,
     Cost |-> r.Cost, LastChecked |-> r.LastChecked]

EditRow(r, e) ==
    CASE e = "amount" -> [r EXCEPT !.CurrentAmount = 10]
      [] e = "blank" -> [r EXCEPT !.Brand = NaNStr]
      [] e = "rekey" -> [r EXCEPT !.ProductID = OtherPid(r.ProductID)]
      [] OTHER -> r

\* Rows the user can append at the bottom of the table
NewRows ==
    { <<>>,
      << [Brand |-> "Bolt", ProductName |-> "Gadget", ProductID |-> "W2",
          MinQty |-> NaN, CurrentAmount |-> 4,
          PerPackage |-> 0, PerBox |-> NaN, PerCase |-> 3,
          Cost |-> NaN, LastChecked |-> NaT] >> }

RECURSIVE ApplyEdits(_, _, _)
ApplyEdits(df, e, i) ==
    IF i > Len(df) THEN <<>>
    ELSE IF e[i] = "drop" THEN ApplyEdits(df, e, i + 1)
         ELSE <<EditRow(DisplayRow(df[i]), e[i])>> \o ApplyEdits(df, e, i + 1)

SearchTexts == {"", "w1"}

\* "Save All Changes" pressed under the table rendered for `search`
SaveAllChanges ==
    /\ now < MaxTime
    /\ now' = now + 1
    /\ lastOp' = "save"
    /\ Remember
    /\ OrderQuiet
    /\ \E search \in SearchTexts :
       \E df \in {DataFrame(get_inventory(inventory_collection, search))} :
        /\ df # <<>>
        /\ \E e \in [1..Len(df) -> RowEdits], extra \in NewRows :
           \E edited_df \in {ApplyEdits(df, e, 1) \o extra} :
           \E h \in {save_state_to_history(inventory_collection, nextId,
                                           undo_stack, redo_stack, now)} :
            /\ args' = [df |-> df, edits |-> e, edited_df |-> edited_df]
            /\ undo_stack' = h.undo
            /\ redo_stack' = h.redo
            /\ base' = h.coll
            /\ IF h.raised
               THEN \* IndexError, caught by the handler's except
                    /\ inventory_collection' = h.coll
                    /\ nextId' = h.nextId
                    /\ outcome' = "error saving changes"
                    /\ report' = NoReport
                    /\ ops' = <<>>
               ELSE \E r \in {SaveChanges(h.coll, h.nextId, now, df, edited_df)} :
                    /\ inventory_collection' = r.coll
                    /\ nextId' = r.nextId
                    /\ outcome' = IF r.changes_made
                                  THEN "changes saved"
                                  ELSE "no changes detected"
                    /\ report' = r.report
                    /\ ops' = r.ops

\* "Undo" pressed.  The button is drawn disabled while undo_stack is empty;
\* the handler still covers both results of perform_undo().
Undo ==
    /\ now < MaxTime
    /\ now' = now + 1
    /\ lastOp' = "undo"
    /\ Remember
    /\ OrderQuiet
    /\ report' = NoReport
    /\ base' = inventory_collection
    /\ \E u \in {perform_undo(inventory_collection, nextId, undo_stack,
                                redo_stack, now)} :
           /\ inventory_collection' = u.coll
           /\ nextId' = u.nextId
           /\ undo_stack' = u.undo
           /\ redo_stack' = u.redo
           /\ outcome' = IF u.ok THEN "undid last operation" ELSE "cannot undo"
           /\ ops' = <<>>
           /\ args' = NoArgs

\* "Redo" pressed (handler as for Undo)
Redo ==
    /\ now < MaxTime
    /\ now' = now + 1
    /\ lastOp' = "redo"
    /\ Remember
    /\ OrderQuiet
    /\ report' = NoReport
    /\ base' = inventory_collection
    /\ \E r \in {perform_redo(inventory_collection, nextId, undo_stack,
                                redo_stack, now)} :
           /\ inventory_collection' = r.coll
           /\ nextId' = r.nextId
           /\ undo_stack' = r.undo
           /\ redo_stack' = r.redo
           /\ outcome' = IF r.ok THEN "redid operation" ELSE "cannot redo"
           /\ ops' = <<>>
           /\ args' = NoArgs

-----------------------------------------------------------------------------

Init ==
    /\ inventory_collection = <<>>
    /\ nextId = 1
    /\ undo_stack = <<>>
    /\ redo_stack = <<>>
    /\ now = 0
    /\ lastOp = "init"
    /\ outcome = ""
    /\ report = NoReport
    /\ ops = <<>>
    /\ base = <<>>
    /\ prev = [last |-> [coll |-> <<>>, undo |-> <<>>, redo |-> <<>>,
                         op |-> "init", outcome |-> "", ops |-> <<>>,
                         order |-> <<>>],
               before |-> [coll |-> <<>>, undo |-> <<>>, redo |-> <<>>,
                           op |-> "init", outcome |-> "", ops |-> <<>>,
                           order |-> <<>>]]
    /\ args = NoArgs
    /\ current_order = <<>>
    /\ confirm_clear_order = FALSE

Next ==
    \/ AddItemSubmit
    \/ ImportUpload
    \/ SaveAllChanges
    \/ Undo
    \/ Redo

Spec == Init /\ [][Next]_vars

-----------------------------------------------------------------------------
(* The Record Store's operations called on their own *)

MaxStoreTime == 4   \* direct store calls explored

RECURSIVE SetToSeq(_)
SetToSeq(S) ==
    IF S = {} THEN <<>>
    ELSE LET x == CHOOSE y \in S : \A z \in S : y <= z
         IN  <<x>> \o SetToSeq(S \ {x})

LiveIds(coll) == {coll[i].id : i \in 1..Len(coll)}

StoreQuiet ==
    /\ report' = NoReport
    /\ base' = inventory_collection
    /\ UNCHANGED <<undo_stack, redo_stack>>

StoreInsert ==
    /\ now < MaxStoreTime
    /\ now' = now + 1
    /\ lastOp' = "insert"
    /\ Remember
    /\ OrderQuiet
    /\ StoreQuiet
    /\ \E f \in FormInputs :
        LET a == add_item(inventory_collection, nextId, now, f.brand,
                          f.product_name, f.product_id, f.min_qty,
                          f.current_amount, f.per_package, f.per_box,
                          f.per_case, f.cost, f.last_checked)
        IN  /\ args' = f
            /\ inventory_collection' = a.coll
            /\ nextId' = a.nextId
            /\ outcome' = IF a.ok THEN "inserted" ELSE "insert failed"
            /\ ops' = <<[op |-> "insert", id |-> None,
                         pid |-> f.product_id, ok |-> a.ok]>>

StoreUpdate ==
    /\ now < MaxStoreTime
    /\ now' = now + 1
    /\ lastOp' = "update"
    /\ Remember
    /\ OrderQuiet
    /\ StoreQuiet
    /\ \E item_id \in 1..nextId, f \in FormInputs :
        LET u == update_item(inventory_collection, now, item_id, f.brand,
                             f.product_name, f.product_id, f.min_qty,
                             f.current_amount, f.per_package, f.per_box,
                             f.per_case, f.cost, f.last_checked)
        IN  /\ args' = [item_id |-> item_id, fields |-> f]
            /\ inventory_collection' = u.coll
            /\ nextId' = nextId
            /\ outcome' = IF u.ok THEN "updated" ELSE "update failed"
            /\ ops' = <<[op |-> "update", id |-> item_id,
                         pid |-> f.product_id, ok |-> u.ok]>>

StoreDelete ==
    /\ now < MaxStoreTime
    /\ now' = now + 1
    /\ lastOp' = "delete"
    /\ Remember
    /\ OrderQuiet
    /\ StoreQuiet
    /\ \E S \in SUBSET (1..nextId) :
        LET ids == SetToSeq(S)
            d == delete_items(inventory_collection, ids)
        IN  /\ args' = [ids |-> ids]
            /\ inventory_collection' = d.coll
            /\ nextId' = nextId
            /\ outcome' = IF d.ok THEN "deleted" ELSE "nothing to delete"
            /\ ops' = <<[op |-> "delete", id |-> None, pid |-> "",
                         ok |-> d.ok, ids |-> ids]>>

NextStore ==
    \/ StoreInsert
    \/ StoreUpdate
    \/ StoreDelete

SpecStore == Init /\ [][NextStore]_vars

\* User actions and direct store calls interleaved
MaxAllTime == 3     \* runs explored when both kinds of step are allowed

NextAll ==
    \/ now < MaxAllTime /\ Next
    \/ now < MaxAllTime /\ NextStore

SpecAll == Init /\ [][NextAll]_vars

-----------------------------------------------------------------------------
(* Properties *)

Min(a, b) == IF a < b THEN a ELSE b

\* The ten business fields of a result row (everything but the record id)
Business(row) == SubSeq(row, 1, 10)
Content(data) == [i \in 1..Len(data) |-> Business(data[i])]
StoreContent(coll) == Content(get_inventory(coll, ""))
StackContent(stack) == [i \in 1..Len(stack) |-> Content(stack[i].data)]

\* The newest n entries of a stack
KeepNewest(stack, n) ==
    IF Len(stack) <= n THEN stack
    ELSE SubSeq(stack, Len(stack) - n + 1, Len(stack))

\* The last run was a mutating user action that got as far as calling
\* save_state_to_history()
RecordedNow ==
    /\ lastOp \in {"add", "save", "import"}
    /\ outcome \notin {"required fields missing", "missing columns",
                       "error importing"}

\* C1: the undo stack never holds more than 10 snapshots, and a recorded
\* mutating action leaves it one snapshot longer (capped at 10, oldest
\* evicted) with the earlier entries kept in order below the new one.
C1_UndoCapped ==
    /\ Len(undo_stack) <= UndoCap
    /\ RecordedNow =>
        /\ Len(undo_stack) = Min(Len(prev.last.undo) + 1, UndoCap)
        /\ Front(undo_stack) = KeepNewest(prev.last.undo, UndoCap - 1)

\* C2: right after a recorded mutating action (add, bulk save, import) the
\* redo stack is empty.
C2_RedoCleared == RecordedNow => redo_stack = <<>>

\* C3: the snapshot a mutating action pushes on the undo stack is the store
\* as it was before the action.
C3_SnapshotBeforeAction ==
    RecordedNow =>
        /\ undo_stack # <<>>
        /\ Last(undo_stack).data = get_inventory(prev.last.coll, "")

UndoThenRedo ==
    /\ lastOp = "redo"
    /\ outcome = "redid operation"
    /\ prev.last.op = "undo"
    /\ prev.last.outcome = "undid last operation"

\* C4: a successful undo directly followed by a redo brings back the pre-undo
\* records (same business fields, same order) and the pre-undo stacks: the
\* redo stack and the undo stack below its top are the very same entries, the
\* top of the undo stack is a re-captured snapshot with the same records.
C4_UndoRedoInverse ==
    UndoThenRedo =>
        /\ StoreContent(inventory_collection) = StoreContent(prev.before.coll)
        /\ redo_stack = prev.before.redo
        /\ Len(undo_stack) = Len(prev.before.undo)
        /\ Front(undo_stack) = Front(prev.before.undo)
        /\ StackContent(undo_stack) = StackContent(prev.before.undo)

\* an undo that changed the table, then a redo that changed it back
C4_Witness ==
    /\ UndoThenRedo
    /\ inventory_collection # <<>>
    /\ StoreContent(prev.last.coll) # StoreContent(prev.before.coll)

\* C5: undo with a non-empty undo stack pushes the snapshot of the current
\* store on redo, pops the newest undo entry and leaves the store holding
\* exactly that entry's records.
C5_UndoRestores ==
    (lastOp = "undo" /\ prev.last.undo # <<>>) =>
        /\ outcome = "undid last operation"
        /\ StoreContent(inventory_collection) = Content(Last(prev.last.undo).data)
        /\ Len(inventory_collection) = Len(Last(prev.last.undo).data)
        /\ undo_stack = Front(prev.last.undo)
        /\ Len(undo_stack) = Len(prev.last.undo) - 1
        /\ Len(redo_stack) = Len(prev.last.redo) + 1
        /\ Front(redo_stack) = prev.last.redo
        /\ Last(redo_stack).data = get_inventory(prev.last.coll, "")

C5_Witness ==
    /\ lastOp = "undo"
    /\ prev.last.undo # <<>>
    /\ inventory_collection # <<>>
    /\ StoreContent(inventory_collection) # StoreContent(prev.last.coll)

\* C6: undo with an empty undo stack reports "cannot undo" and changes
\* neither the store nor either stack.
C6_UndoEmptyNoOp ==
    (lastOp = "undo" /\ prev.last.undo = <<>>) =>
        /\ outcome = "cannot undo"
        /\ inventory_collection = prev.last.coll
        /\ undo_stack = prev.last.undo
        /\ redo_stack = prev.last.redo

C6_Witness ==
    /\ lastOp = "undo"
    /\ outcome = "cannot undo"
    /\ inventory_collection # <<>>
    /\ redo_stack # <<>>

\* C7: redo with an empty redo stack fails and changes nothing; otherwise it
\* pushes the snapshot of the pre-redo store on undo, pops the newest redo
\* entry and leaves the store holding that entry's records.
C7_RedoMirrorsUndo ==
    lastOp = "redo" =>
        IF prev.last.redo = <<>>
        THEN /\ outcome = "cannot redo"
             /\ inventory_collection = prev.last.coll
             /\ undo_stack = prev.last.undo
             /\ redo_stack = prev.last.redo
        ELSE /\ outcome = "redid operation"
             /\ StoreContent(inventory_collection)
                    = Content(Last(prev.last.redo).data)
             /\ Len(inventory_collection) = Len(Last(prev.last.redo).data)
             /\ redo_stack = Front(prev.last.redo)
             /\ Len(undo_stack) = Len(prev.last.undo) + 1
             /\ Front(undo_stack) = prev.last.undo
             /\ Last(undo_stack).data = get_inventory(prev.last.coll, "")

C7_Witness ==
    /\ lastOp = "redo"
    /\ outcome = "redid operation"
    /\ inventory_collection # <<>>
    /\ StoreContent(inventory_collection) # StoreContent(prev.last.coll)

\* C8: no two live records have the same product_id.
C8_UniqueProductId ==
    \A i, j \in 1..Len(inventory_collection) :
        i # j => inventory_collection[i].product_id
                    # inventory_collection[j].product_id

\* a write of a product id that is already live was attempted and refused
C8_Witness ==
    /\ inventory_collection # <<>>
    /\ \E k \in 1..Len(ops) : ops[k].op \in {"insert", "update"} /\ ~ops[k].ok

PidLive(coll, pid) == \E i \in 1..Len(coll) : coll[i].product_id = pid

\* C9: an insert whose product_id is already live fails and leaves the store
\* exactly as it was; any other insert appends one record with that
\* product_id, stamped with the time of the call, and keeps the rest.
C9_InsertDuplicateRejected ==
    (lastOp \in {"insert", "add"} /\ Len(ops) = 1) =>
        IF PidLive(base, ops[1].pid)
        THEN /\ ~ops[1].ok
             /\ inventory_collection = base
        ELSE /\ ops[1].ok
             /\ Len(inventory_collection) = Len(base) + 1
             /\ Front(inventory_collection) = base
             /\ Last(inventory_collection).product_id = ops[1].pid
             /\ Last(inventory_collection).created_at = now - 1
             /\ Last(inventory_collection).updated_at = now - 1

C9_Witness ==
    /\ lastOp \in {"insert", "add"}
    /\ Len(ops) = 1
    /\ ~ops[1].ok
    /\ PidLive(base, ops[1].pid)
    /\ inventory_collection = base

Range(seq) == {seq[i] : i \in 1..Len(seq)}

\* C10: delete(ids) removes exactly the live records whose id is in ids and
\* keeps every other record unchanged and in order; repeating the same call
\* changes nothing.
C10_DeleteIdempotent ==
    lastOp = "delete" =>
        LET ids == Range(ops[1].ids)
        IN  /\ LiveIds(inventory_collection) = LiveIds(prev.last.coll) \ ids
            /\ \A d \in Range(prev.last.coll) :
                   d.id \notin ids => d \in Range(inventory_collection)
            /\ Range(inventory_collection) \subseteq Range(prev.last.coll)
            /\ (prev.last.op = "delete" /\ prev.last.ops[1].ids = ops[1].ids)
                   => inventory_collection = prev.last.coll

\* the same non-empty ids deleted twice, the first call having removed a
\* record and left another
C10_Witness ==
    /\ lastOp = "delete"
    /\ prev.last.op = "delete"
    /\ prev.last.ops[1].ids = ops[1].ids
    /\ ops[1].ids # <<>>
    /\ Len(prev.last.coll) < Len(prev.before.coll)
    /\ inventory_collection # <<>>

-----------------------------------------------------------------------------
(* Claims about updates, the reconciler and the low-stock query *)

\* C11: update(id, fields) on an id no live record has fails (the caller
\* is told so, unlike after a successful update) and leaves the store
\* unchanged.
C11_UpdateMissingFails ==
    (lastOp = "update" /\ args.item_id \notin LiveIds(prev.last.coll)) =>
        /\ ~ops[1].ok
        /\ outcome = "update failed"
        /\ inventory_collection = prev.last.coll

\* The reconciler as the specification words it: a cell is absent when it is
\* None or NaN, and a matched row differs when some normalised field does.
Absent(v) == v = None \/ v = NaN

SamePer(orig, v) == IF Absent(orig) THEN v = None ELSE orig = v

Differs(orig_data, c) ==
    \/ Strip(Str(orig_data.Brand)) # c.brand
    \/ Strip(Str(orig_data.ProductName)) # c.product_name
    \/ Strip(Str(orig_data.ProductID)) # c.product_id
    \/ orig_data.MinQty # c.min_qty
    \/ orig_data.CurrentAmount # c.current_amount
    \/ ~SamePer(orig_data.PerPackage, c.per_package)
    \/ ~SamePer(orig_data.PerBox, c.per_box)
    \/ ~SamePer(orig_data.PerCase, c.per_case)
    \/ orig_data.Cost # c.cost
    \/ orig_data.LastChecked # c.last_checked_str

IsBlank(edited_row) ==
    \/ edited_row.Brand = NaNStr
    \/ edited_row.ProductName = NaNStr
    \/ edited_row.ProductID = NaNStr

\* <<operation, id, product id, ids>> of one store operation
OpKey(o) == <<o.op, o.id, o.pid, IF o.op = "delete" THEN o.ids ELSE <<>> >>

RECURSIVE ExpectedRows(_, _, _)
ExpectedRows(edited_df, df, acc) ==
    IF edited_df = <<>> THEN acc
    ELSE LET row == Head(edited_df)
             c == Converted(row)
             m == MatchingIndex(df, acc.processed, c.product_id)
             next ==
                 IF IsBlank(row) THEN acc
                 ELSE IF m = 0
                 THEN [acc EXCEPT !.ops =
                          Append(@, <<"insert", None, c.product_id, <<>> >>)]
                 ELSE [processed |-> acc.processed \cup {df[m].id},
                       ops |-> IF Differs(df[m], c)
                               THEN Append(acc.ops, <<"update", df[m].id,
                                                      c.product_id, <<>> >>)
                               ELSE acc.ops]
         IN  ExpectedRows(Tail(edited_df), df, next)

ExpectedOps(df, edited_df) ==
    LET p == ExpectedRows(edited_df, df, [processed |-> {}, ops |-> <<>>])
        unmatched == SelectSeq(df, LAMBDA r : r.id \notin p.processed)
        ids == [i \in 1..Len(unmatched) |-> unmatched[i].id]
    IN  IF ids = <<>> THEN p.ops
        ELSE Append(p.ops, <<"delete", None, "", ids>>)

\* C12: the operations a save issues against the store are exactly one
\* update per matched row that differs in some field, one insert per
\* unmatched non-blank row, and one delete of the last-known ids no edited
\* row matched.
C12_ReconcilerOperations ==
    lastOp = "save" =>
        [i \in 1..Len(ops) |-> OpKey(ops[i])]
            = ExpectedOps(args.df, args.edited_df)

\* C13: an edited row missing brand, product name or product id is skipped
\* and is no delete signal: it issues no insert and no update, and no delete
\* names the record the row was displaying before its field was blanked.
C13_BlankRowNoOperation ==
    lastOp = "save" =>
        /\ Cardinality({k \in 1..Len(ops) : ops[k].op \in {"insert", "update"}})
               <= Cardinality({j \in 1..Len(args.edited_df) :
                                  ~IsBlank(args.edited_df[j])})
        /\ \A i \in 1..Len(args.df) :
               args.edits[i] = "blank" =>
                   \A k \in 1..Len(ops) :
                       ops[k].op = "delete" =>
                           args.df[i].id \notin Range(ops[k].ids)

-----------------------------------------------------------------------------
(* The low-stock query *)

\* Mutant: the pipeline without the {"$gt": [minimum, 0]} test
get_low_stock_items_NoMinTest(coll) ==
    LET found == SelectSeq(coll, LAMBDA d :
                     d.current_amount <= d.minimum_individual_quantity)
        cursor == SortDocs(found)
    IN  [i \in 1..Len(cursor) |-> ResultRow(cursor[i])]

\* $match on minimum > 0 and current <= minimum, then $sort brand, product_name
get_low_stock_items(coll) ==
    LET found == SelectSeq(coll, LAMBDA d :
                     /\ d.minimum_individual_quantity > 0
                     /\ d.current_amount <= d.minimum_individual_quantity)
        cursor == SortDocs(found)
    IN  [i \in 1..Len(cursor) |-> ResultRow(cursor[i])]

\* C14: the low-stock query returns exactly the rows of the full listing
\* whose minimum is above 0 and whose current amount is at most the minimum,
\* each once; a record with minimum 0 is never among them.
C14_LowStockThreshold ==
    LET low == get_low_stock_items(inventory_collection)
        all == get_inventory(inventory_collection, "")
    IN  /\ Range(low) = {r \in Range(all) : r[4] > 0 /\ r[5] <= r[4]}
        /\ Cardinality(Range(low)) = Len(low)
        /\ \A r \in Range(low) : r[4] # 0

\* a record reported with minimum 5 and amount 3 has its amount raised to
\* 10 by an update and is no longer reported, next to a record with
\* minimum 0 and amount 0 that is not reported either
C14_Witness ==
    /\ lastOp = "update"
    /\ \E r \in Range(get_low_stock_items(prev.last.coll)) :
           /\ r[4] = 5 /\ r[5] = 3
           /\ \E d \in Range(inventory_collection) :
                  /\ d.id = r[11]
                  /\ d.current_amount = 10
                  /\ \A q \in Range(get_low_stock_items(inventory_collection)) :
                         q[11] # d.id
    /\ \E d \in Range(inventory_collection) :
           d.minimum_individual_quantity = 0 /\ d.current_amount = 0

-----------------------------------------------------------------------------
(* The order tab: st.session_state.current_order *)

MaxOrderTime == 5   \* script runs explored on the order tab
MaxQuantity == 3    \* largest value typed into a quantity box

\* Mutant: no look-up of the product id, every call appends a line
add_to_order_AlwaysAppend(order, item_info, quantity) ==
    Append(order,
           [brand |-> item_info[1], product_name |-> item_info[2],
            product_id |-> item_info[3], current_amount |-> item_info[5],
            per_package |-> item_info[6], per_box |-> item_info[7],
            per_case |-> item_info[8], cost |-> item_info[9],
            quantity |-> quantity])

\* item_info is a row of get_inventory(); returns the new current_order
add_to_order(order, item_info, quantity) ==
    LET found == {i \in 1..Len(order) : order[i].product_id = item_info[3]}
    IN  IF found # {}
        THEN LET i == CHOOSE k \in found : \A j \in found : k <= j
             IN  [order EXCEPT ![i].quantity = @ + quantity]
        ELSE Append(order,
                    [brand |-> item_info[1], product_name |-> item_info[2],
                     product_id |-> item_info[3],
                     current_amount |-> item_info[5],
                     per_package |-> item_info[6], per_box |-> item_info[7],
                     per_case |-> item_info[8], cost |-> item_info[9],
                     quantity |-> quantity])

remove_from_order(order, product_id) ==
    SelectSeq(order, LAMBDA item : item.product_id # product_id)

\* the first line with the product id gets the new quantity
update_order_quantity(order, product_id, new_quantity) ==
    LET found == {i \in 1..Len(order) : order[i].product_id = product_id}
    IN  IF found = {} THEN order
        ELSE LET i == CHOOSE k \in found : \A j \in found : k <= j
             IN  [order EXCEPT ![i].quantity = new_quantity]

clear_order == <<>>

\* A run of the order tab leaves the collection and the history alone
InventoryQuiet ==
    /\ report' = NoReport
    /\ ops' = <<>>
    /\ base' = inventory_collection
    /\ UNCHANGED <<inventory_collection, nextId, undo_stack, redo_stack>>

\* "Add" pressed next to an item of the (filtered) inventory list
AddToOrder ==
    /\ now < MaxOrderTime
    /\ now' = now + 1
    /\ lastOp' = "add_to_order"
    /\ Remember
    /\ InventoryQuiet
    /\ \E item_search \in SearchTexts :
       \E filtered_inventory \in {get_inventory(inventory_collection, item_search)} :
       \E n \in 1..Len(filtered_inventory), quantity \in 1..(MaxQuantity - 1) :
           /\ args' = [product_id |-> filtered_inventory[n][3],
                       quantity |-> quantity]
           /\ current_order' = add_to_order(current_order,
                                            filtered_inventory[n], quantity)
           /\ outcome' = "added to order"
           /\ UNCHANGED confirm_clear_order

\* The quantity box of an order line changed
UpdateOrderQuantity ==
    /\ now < MaxOrderTime
    /\ now' = now + 1
    /\ lastOp' = "update_order_quantity"
    /\ Remember
    /\ InventoryQuiet
    /\ \E i \in 1..Len(current_order), new_qty \in 1..MaxQuantity :
           /\ new_qty # current_order[i].quantity
           /\ args' = [product_id |-> current_order[i].product_id,
                       quantity |-> new_qty]
           /\ current_order' = update_order_quantity(current_order,
                                   current_order[i].product_id, new_qty)
           /\ outcome' = ""
           /\ UNCHANGED confirm_clear_order

\* "Remove" pressed on an order line
RemoveFromOrder ==
    /\ now < MaxOrderTime
    /\ now' = now + 1
    /\ lastOp' = "remove_from_order"
    /\ Remember
    /\ InventoryQuiet
    /\ \E i \in 1..Len(current_order) :
           /\ args' = [product_id |-> current_order[i].product_id]
           /\ current_order' = remove_from_order(current_order,
                                   current_order[i].product_id)
           /\ outcome' = ""
           /\ UNCHANGED confirm_clear_order

\* "Clear All" pressed: the first press asks, a press while asked clears
ClearAll ==
    /\ now < MaxOrderTime
    /\ now' = now + 1
    /\ lastOp' = "clear_all"
    /\ Remember
    /\ InventoryQuiet
    /\ current_order # <<>>
    /\ args' = NoArgs
    /\ IF confirm_clear_order
       THEN /\ current_order' = clear_order
            /\ confirm_clear_order' = FALSE
            /\ outcome' = "order cleared"
       ELSE /\ confirm_clear_order' = TRUE
            /\ outcome' = ""
            /\ UNCHANGED current_order

\* "Yes, Clear Order" pressed
ConfirmClear ==
    /\ now < MaxOrderTime
    /\ now' = now + 1
    /\ lastOp' = "confirm_clear"
    /\ Remember
    /\ InventoryQuiet
    /\ current_order # <<>>
    /\ confirm_clear_order
    /\ args' = NoArgs
    /\ current_order' = clear_order
    /\ confirm_clear_order' = FALSE
    /\ outcome' = ""

\* "Cancel" pressed
CancelClear ==
    /\ now < MaxOrderTime
    /\ now' = now + 1
    /\ lastOp' = "cancel_clear"
    /\ Remember
    /\ InventoryQuiet
    /\ current_order # <<>>
    /\ confirm_clear_order
    /\ args' = NoArgs
    /\ confirm_clear_order' = FALSE
    /\ outcome' = ""
    /\ UNCHANGED current_order

\* The order tab next to a store that gains items
NextOrder ==
    \/ now < MaxOrderTime /\ StoreInsert
    \/ AddToOrder
    \/ UpdateOrderQuantity
    \/ RemoveFromOrder
    \/ ClearAll
    \/ ConfirmClear
    \/ CancelClear

SpecOrder == Init /\ [][NextOrder]_vars

\* C15: the order never holds two lines with the same product id; adding a
\* product that already has a line adds the given quantity to that line and
\* leaves the number of lines and every other line as they were.
C15_OneLinePerProduct ==
    /\ \A i, j \in 1..Len(current_order) :
           current_order[i].product_id = current_order[j].product_id => i = j
    /\ \A k \in 1..Len(prev.last.order) :
           (lastOp = "add_to_order"
                /\ prev.last.order[k].product_id = args.product_id) =>
               current_order =
                   [prev.last.order EXCEPT ![k].quantity = @ + args.quantity]

\* a second add of a product, into an order of two lines
C15_Witness ==
    /\ lastOp = "add_to_order"
    /\ Len(prev.last.order) = 2
    /\ \E k \in 1..2 : prev.last.order[k].product_id = args.product_id
    /\ Len(current_order) = 2

-----------------------------------------------------------------------------
(* Claims about CSV import and export *)

\* C16: importing a file that lacks a required column reports the missing
\* columns, returns failure, and leaves the store, the undo stack and the
\* redo stack as they were.
C16_ImportMissingColumn ==
    (lastOp = "import" /\ ~(required_columns \subseteq args.columns)) =>
        /\ outcome = "missing columns"
        /\ ~ops[1].ok
        /\ inventory_collection = prev.last.coll
        /\ undo_stack = prev.last.undo
        /\ redo_stack = prev.last.redo

\* a file without the Cost column uploaded over a stocked store in a session
\* with history
C16_Witness ==
    /\ lastOp = "import"
    /\ "Cost" \notin args.columns
    /\ prev.last.coll # <<>>
    /\ prev.last.undo # <<>>
    /\ prev.last.redo # <<>>

\* C17: a file with all required columns but a malformed row (a quantity
\* that is no number, or a product id repeated within the file) is rejected
\* as a whole: the store then holds the same records as before the import.
C17_ImportAllOrNothing ==
    (lastOp = "import" /\ required_columns \subseteq args.columns
         /\ ~ops[1].ok) =>
        inventory_collection = prev.last.coll

-----------------------------------------------------------------------------
(* CSV export, and the exported file read back *)

MaxCsvTime == 4     \* direct calls explored around an export and import

all_columns == required_columns \cup {"Per Package", "Per Box", "Per Case"}
text_columns == {"Brand", "Product Name", "Product ID", "Last Checked"}

\* How to_csv writes the numbers the model uses, and how str() shows a float
NumText == <<"0", "1", "2", "3", "4", "5", "6", "7", "8", "9", "10", "11",
             "12">>
FloatText == <<"0.0", "1.0", "2.0", "3.0", "4.0", "5.0", "6.0", "7.0", "8.0",
               "9.0", "10.0", "11.0", "12.0">>

\* to_csv: a missing value is written as an empty field
WriteNum(v) == IF v = None \/ v = NaN THEN "" ELSE NumText[v + 1]

\* df.to_csv(index=False) of the sorted documents: every field as text
export_csv(coll) ==
    LET cursor == SortDocs(coll)
    IN  [columns |-> all_columns,
         rows |-> [i \in 1..Len(cursor) |->
            [c \in all_columns |->
                CASE c = "Brand" -> cursor[i].brand
                  [] c = "Product Name" -> cursor[i].product_name
                  [] c = "Product ID" -> cursor[i].product_id
                  [] c = "Min Individual Qty" ->
                         WriteNum(cursor[i].minimum_individual_quantity)
                  [] c = "Current Amount" -> WriteNum(cursor[i].current_amount)
                  [] c = "Per Package" -> WriteNum(cursor[i].per_package)
                  [] c = "Per Box" -> WriteNum(cursor[i].per_box)
                  [] c = "Per Case" -> WriteNum(cursor[i].per_case)
                  [] c = "Cost" -> WriteNum(cursor[i].cost)
                  [] c = "Last Checked" -> cursor[i].last_checked]]]

\* pd.read_csv: the fields it takes for a missing value, among the model's
\* strings
na_values == {"", "NA", "NaN", "nan"}

\* the fields it parses as a number
IsNumText(s) == s = "007" \/ \E n \in 1..Len(NumText) : NumText[n] = s

NumberOf(s) ==
    IF s = "007" THEN 7 ELSE (CHOOSE n \in 1..Len(NumText) : NumText[n] = s) - 1

ReadNum(s) ==
    IF s \in na_values THEN NaN
    ELSE IF IsNumText(s) THEN NumberOf(s) ELSE NonNumeric

\* A column is numeric when every field that is not missing parses as a
\* number: int64 without a missing field, float64 with one.  The cell of a
\* numeric column is kept as what str() returns for it.
ReadText(rows, c, s) ==
    LET present == {i \in 1..Len(rows) : rows[i][c] \notin na_values}
    IN  IF s \in na_values THEN NaNStr
        ELSE IF \A i \in present : IsNumText(rows[i][c])
        THEN IF present = 1..Len(rows)
             THEN NumText[NumberOf(s) + 1]
             ELSE FloatText[NumberOf(s) + 1]
        ELSE s

read_csv(file) ==
    [columns |-> file.columns,
     rows |-> [i \in 1..Len(file.rows) |->
        [c \in file.columns |->
            IF c \in text_columns
            THEN ReadText(file.rows, c, file.rows[i][c])
            ELSE ReadNum(file.rows[i][c])]]]

\* The form's items that pass its validation, and two whose text fields
\* read_csv does not keep as text
CsvFormInputs ==
    {f \in FormInputs : f.brand # ""} \cup
    { [brand |-> "NA", product_name |-> "Gadget", product_id |-> "W2",
       min_qty |-> 2, current_amount |-> 1,
       per_package |-> None, per_box |-> 6, per_case |-> None,
       cost |-> 3, last_checked |-> "2024-01-01"],
      [brand |-> "Bolt", product_name |-> "Gadget", product_id |-> "007",
       min_qty |-> 1, current_amount |-> 4,
       per_package |-> 12, per_box |-> None, per_case |-> None,
       cost |-> 1, last_checked |-> "2024-02-02"] }

\* add_item called on its own with one of these items
CsvInsert ==
    /\ now < MaxCsvTime
    /\ now' = now + 1
    /\ lastOp' = "insert"
    /\ Remember
    /\ OrderQuiet
    /\ StoreQuiet
    /\ \E f \in CsvFormInputs :
       \E a \in {add_item(inventory_collection, nextId, now, f.brand,
                          f.product_name, f.product_id, f.min_qty,
                          f.current_amount, f.per_package, f.per_box,
                          f.per_case, f.cost, f.last_checked)} :
           /\ args' = f
           /\ inventory_collection' = a.coll
           /\ nextId' = a.nextId
           /\ outcome' = IF a.ok THEN "inserted" ELSE "insert failed"
           /\ ops' = <<[op |-> "insert", id |-> None,
                        pid |-> f.product_id, ok |-> a.ok]>>

\* export_csv(), then import_csv() of the bytes it returned
ExportImport ==
    /\ now < MaxCsvTime
    /\ now' = now + 1
    /\ lastOp' = "export import"
    /\ Remember
    /\ OrderQuiet
    /\ StoreQuiet
    /\ \E csv_data \in {export_csv(inventory_collection)} :
       \E df \in {read_csv(csv_data)} :
       \E m \in {import_csv(inventory_collection, nextId, now, df)} :
           /\ args' = csv_data
           /\ inventory_collection' = m.coll
           /\ nextId' = m.nextId
           /\ outcome' = IF m.ok THEN "imported" ELSE "error importing"
           /\ ops' = <<[op |-> "import", id |-> None, pid |-> "",
                        ok |-> m.ok]>>

NextCsv ==
    \/ CsvInsert
    \/ ExportImport

SpecCsv == Init /\ [][NextCsv]_vars

\* C18: importing the file export_csv() returned leaves a store with the
\* same number of records and, for each product id, the same brand, name,
\* quantities, cost, last-checked date and per-package, per-box and
\* per-case values (absent or the same number) as before the export.
C18_ExportImportRoundTrip ==
    lastOp = "export import" =>
        /\ ops[1].ok
        /\ Len(inventory_collection) = Len(prev.last.coll)
        /\ Range(StoreContent(inventory_collection))
               = Range(StoreContent(prev.last.coll))

-----------------------------------------------------------------------------
(* Claims about stored values and about failures *)

\* C19: in the store, per_package, per_box and per_case of every record are
\* None or strictly positive, never zero, whatever action ran last.
C19_PerFieldsNeverZero ==
    \A d \in Range(inventory_collection) :
        /\ d.per_package = None \/ d.per_package > 0
        /\ d.per_box = None \/ d.per_box > 0
        /\ d.per_case = None \/ d.per_case > 0

\* C20: no user action ends with an exception leaving its handler; every
\* failure is caught there and reported, also when the undo stack is empty.
C20_NoUncaughtException ==
    outcome # "uncaught exception"

-----------------------------------------------------------------------------
(* Claims about validation, frames and the reconciler's bookkeeping *)

\* C21: an add-item submission with an empty brand, product name or product
\* id shows the required-fields error, writes no record and changes neither
\* the undo stack nor the redo stack.
C21_AddValidationFailure ==
    (lastOp = "add"
         /\ (args.brand = "" \/ args.product_name = "" \/ args.product_id = "")) =>
        /\ outcome = "required fields missing"
        /\ ops = <<>>
        /\ inventory_collection = prev.last.coll
        /\ undo_stack = prev.last.undo
        /\ redo_stack = prev.last.redo

\* the form submitted without a brand over a stocked store, with history on
\* both stacks
C21_Witness ==
    /\ lastOp = "add"
    /\ args.brand = ""
    /\ prev.last.coll # <<>>
    /\ prev.last.undo # <<>>
    /\ prev.last.redo # <<>>

\* C22: recording history leaves the store's contents as they were: the
\* records a mutating action starts from, once it has saved history, are
\* the records the store held before the action.
C22_RecordLeavesStore ==
    (\/ lastOp = "save"
     \/ lastOp = "add" /\ RequiredFilled(args.brand, args.product_name,
                                         args.product_id)) =>
        StoreContent(base) = StoreContent(prev.last.coll)

\* C23: a successful update of a live id changes that record only: it keeps
\* its id and created_at, holds the new field values (a per-unit count of 0
\* stored as None) and the time of the call as updated_at; every other
\* record, and the order of the records, is as before.
C23_UpdateFrame ==
    (lastOp = "update" /\ ops[1].ok
         /\ args.item_id \in LiveIds(prev.last.coll)) =>
        /\ Len(inventory_collection) = Len(prev.last.coll)
        /\ \A i \in 1..Len(prev.last.coll) :
               LET old == prev.last.coll[i]
                   new == inventory_collection[i]
                   f == args.fields
               IN  IF old.id = args.item_id
                   THEN new = [id |-> old.id,
                               brand |-> f.brand,
                               product_name |-> f.product_name,
                               product_id |-> f.product_id,
                               minimum_individual_quantity |-> f.min_qty,
                               current_amount |-> f.current_amount,
                               per_package |-> NoneIfZero(f.per_package),
                               per_box |-> NoneIfZero(f.per_box),
                               per_case |-> NoneIfZero(f.per_case),
                               cost |-> f.cost,
                               last_checked |-> f.last_checked,
                               created_at |-> old.created_at,
                               updated_at |-> now - 1]
                   ELSE new = old

\* one of two records updated, with new values, after it was created
C23_Witness ==
    /\ lastOp = "update"
    /\ ops[1].ok
    /\ Len(prev.last.coll) >= 2
    /\ \E i \in 1..Len(prev.last.coll) :
           /\ prev.last.coll[i].id = args.item_id
           /\ prev.last.coll[i].brand # args.fields.brand
           /\ prev.last.coll[i].created_at < now - 1

\* The edited rows that are not blank and carry product id p once trimmed
RowsWithPid(edited_df, p) ==
    {j \in 1..Len(edited_df) :
        ~IsBlank(edited_df[j]) /\ Converted(edited_df[j]).product_id = p}

\* The last-known records with product id p once trimmed
RecordsWithPid(df, p) ==
    {i \in 1..Len(df) : Strip(Str(df[i].ProductID)) = p}

\* C24: in a reconciliation no record id is updated by two edited rows; the
\* edited rows with one product id beyond the records that have it are
\* inserts, and they come after the row that claimed the record.
C24_FirstMatchWins ==
    (lastOp = "save" /\ outcome # "error saving changes") =>
        /\ \A k, l \in 1..Len(ops) :
               (ops[k].op = "update" /\ ops[l].op = "update"
                    /\ ops[k].id = ops[l].id) => k = l
        /\ \A j \in 1..Len(args.edited_df) :
               ~IsBlank(args.edited_df[j]) =>
                   LET p == Converted(args.edited_df[j]).product_id
                       rows == Cardinality(RowsWithPid(args.edited_df, p))
                       recs == Cardinality(RecordsWithPid(args.df, p))
                       inserts == Cardinality({k \in 1..Len(ops) :
                                      ops[k].op = "insert" /\ ops[k].pid = p})
                   IN  inserts = IF rows > recs THEN rows - recs ELSE 0
        /\ \A k, l \in 1..Len(ops) :
               (ops[k].op = "insert" /\ ops[l].op = "update"
                    /\ ops[k].pid = ops[l].pid) => l < k

\* two edited rows carry the product id of one record: the first updates
\* the record, the second is inserted
C24_Witness ==
    /\ lastOp = "save"
    /\ outcome # "error saving changes"
    /\ \E p \in {"W1", "W2"} :
           /\ Cardinality(RowsWithPid(args.edited_df, p)) = 2
           /\ Cardinality(RecordsWithPid(args.df, p)) = 1
           /\ \E k, l \in 1..Len(ops) :
                  /\ k < l
                  /\ ops[k].op = "update" /\ ops[k].pid = p
                  /\ ops[l].op = "insert" /\ ops[l].pid = p

\* C25: a save whose edited rows are the last-known rows, none edited, added
\* or removed, issues no insert, update or delete, leaves the store's
\* records as they were and reports that there were no changes.
C25_IdenticalRowsNoChange ==
    (lastOp = "save" /\ Len(args.edited_df) = Len(args.df)
         /\ \A i \in 1..Len(args.df) : args.edits[i] = "keep") =>
        /\ ops = <<>>
        /\ outcome = "no changes detected"
        /\ StoreContent(inventory_collection) = StoreContent(prev.last.coll)

\* C26: the counts a save reports are the operations it performed: added is
\* the number of inserts that succeeded, updated the number of updates
\* issued, deleted the number of ids handed to the delete; blank rows and
\* matched rows without a differing field count as nothing.
C26_ReportCountsOperations ==
    (lastOp = "save" /\ outcome = "changes saved") =>
        /\ report.added = Cardinality({k \in 1..Len(ops) :
                              ops[k].op = "insert" /\ ops[k].ok})
        /\ report.updated = Cardinality({k \in 1..Len(ops) :
                                ops[k].op = "update"})
        /\ \A k \in 1..Len(ops) :
               ops[k].op = "delete" => report.deleted = Len(ops[k].ids)
        /\ (\A k \in 1..Len(ops) : ops[k].op # "delete") => report.deleted = 0

-----------------------------------------------------------------------------
(* Snapshot replay on rows of every stored format *)

MaxReplayTime == 2  \* replays explored, one after the other

\* A row without the fields at positions from..to
Without(item, from, to) ==
    SubSeq(item, 1, from - 1) \o SubSeq(item, to + 1, Len(item))

\* Two rows as get_inventory() returns them, and the same rows as the three
\* older formats stored them
HistoryRows ==
    LET full == { <<"Acme", "Widget", "W1", 5, 3, 2, 6, 12, 2, "2024-01-01", 1>>,
                  <<"Bolt", "Gadget", "W2", 2, 1, None, None, 4, 3,
                    "2024-02-02", 2>> }
    IN  UNION { { r, Without(r, 6, 6), Without(r, 6, 8), Without(r, 6, 9) } :
                  r \in full }

\* Snapshots of at most two rows, with distinct product ids as the unique
\* index leaves them
HistoryData ==
    { <<>> } \cup { <<r>> : r \in HistoryRows }
             \cup { <<r, q>> : r, q \in HistoryRows }

DistinctPids(state_data) ==
    \A i, j \in 1..Len(state_data) :
        state_data[i][3] = state_data[j][3] => i = j

\* restore_state_from_history(state_data) called on its own
Replay ==
    /\ now < MaxReplayTime
    /\ now' = now + 1
    /\ lastOp' = "replay"
    /\ Remember
    /\ OrderQuiet
    /\ StoreQuiet
    /\ \E state_data \in {d \in HistoryData : DistinctPids(d)} :
       \E r \in {restore_state_from_history(nextId, now, state_data)} :
           /\ args' = [state_data |-> state_data]
           /\ inventory_collection' = r.coll
           /\ nextId' = r.nextId
           /\ outcome' = IF r.ok THEN "restored" ELSE "error restoring state"
           /\ ops' = <<>>

NextReplay == Replay

SpecReplay == Init /\ [][NextReplay]_vars

\* The fields of a stored row by its length: <<per_package, per_box,
\* per_case, cost, last_checked>>, absent ones at their defaults
RowTail(item) ==
    CASE Len(item) = 11 -> <<item[6], item[7], item[8], item[9], item[10]>>
      [] Len(item) = 10 -> <<None, item[6], item[7], item[8], item[9]>>
      [] Len(item) = 8 -> <<None, None, None, item[6], item[7]>>
      [] Len(item) = 7 -> <<None, None, None, 0, item[6]>>

\* C27: replaying a snapshot whose rows have 11, 10, 8 or 7 fields succeeds
\* and leaves one record per row, in order, with the row's own fields
\* unchanged and per_package / per_box / per_case absent and cost 0 where
\* the row's format lacks them.
C27_ReplayAllFormats ==
    lastOp = "replay" =>
        /\ outcome = "restored"
        /\ Len(inventory_collection) = Len(args.state_data)
        /\ \A i \in 1..Len(args.state_data) :
               LET item == args.state_data[i]
                   d == inventory_collection[i]
               IN  /\ <<d.brand, d.product_name, d.product_id,
                        d.minimum_individual_quantity, d.current_amount>>
                          = SubSeq(item, 1, 5)
                   /\ <<d.per_package, d.per_box, d.per_case, d.cost,
                        d.last_checked>> = RowTail(item)

\* a snapshot mixing a 10-field row and a 7-field row was replayed
C27_Witness ==
    /\ lastOp = "replay"
    /\ Len(args.state_data) = 2
    /\ Len(args.state_data[1]) = 10
    /\ Len(args.state_data[2]) = 7
    /\ Len(inventory_collection) = 2
    /\ inventory_collection[1].per_box # None
    /\ inventory_collection[2].cost = 0

-----------------------------------------------------------------------------
(* The history functions called on their own, over a long session *)

MaxStackTime == 11  \* history calls explored, one more than the undo cap

\* The results of a history call written to the store and the stacks
HistoryCall(h, op, said) ==
    /\ now' = now + 1
    /\ lastOp' = op
    /\ Remember
    /\ OrderQuiet
    /\ report' = NoReport
    /\ base' = inventory_collection
    /\ args' = NoArgs
    /\ ops' = <<>>
    /\ inventory_collection' = h.coll
    /\ nextId' = h.nextId
    /\ undo_stack' = h.undo
    /\ redo_stack' = h.redo
    /\ outcome' = said

\* save_state_to_history() as a mutating action calls it
RecordCall ==
    /\ now < MaxStackTime
    /\ \E h \in {save_state_to_history(inventory_collection, nextId,
                                       undo_stack, redo_stack, now)} :
           HistoryCall(h, "record",
                       IF h.raised THEN "uncaught exception" ELSE "recorded")

\* perform_undo() behind the enabled "Undo" button
UndoCall ==
    /\ now < MaxStackTime
    /\ undo_stack # <<>>
    /\ \E h \in {perform_undo(inventory_collection, nextId, undo_stack,
                              redo_stack, now)} :
           HistoryCall(h, "undo",
                       IF h.ok THEN "undid last operation" ELSE "cannot undo")

\* perform_redo() behind the enabled "Redo" button
RedoCall ==
    /\ now < MaxStackTime
    /\ redo_stack # <<>>
    /\ \E h \in {perform_redo(inventory_collection, nextId, undo_stack,
                              redo_stack, now)} :
           HistoryCall(h, "redo",
                       IF h.ok THEN "redid operation" ELSE "cannot redo")

NextStacks ==
    \/ RecordCall
    \/ UndoCall
    \/ RedoCall

SpecStacks == Init /\ [][NextStacks]_vars

\* C28: undo and redo only move snapshots between the stacks, so the two
\* lengths add up to the same number before and after either; the redo
\* stack never holds more than 10 entries and a redo never leaves more than
\* 10 on the undo stack.
C28_StacksBounded ==
    /\ lastOp \in {"undo", "redo"} =>
           Len(undo_stack) + Len(redo_stack)
               = Len(prev.last.undo) + Len(prev.last.redo)
    /\ Len(redo_stack) <= UndoCap
    /\ lastOp = "redo" => Len(undo_stack) <= UndoCap

-----------------------------------------------------------------------------
(* Claims about a save under a filter and about re-keyed rows *)

\* The records of the store the rendered table does not show
Hidden(coll, df) ==
    {d \in Range(coll) : \A i \in 1..Len(df) : df[i].id # d.id}

\* C29: a save leaves every stored record that the filtered table did not
\* show in the store with all its fields, whatever the edited rows are.
C29_FilteredSaveFrame ==
    lastOp = "save" =>
        \A d \in Hidden(prev.last.coll, args.df) :
            \E k \in 1..Len(inventory_collection) :
                Business(ResultRow(inventory_collection[k]))
                    = Business(ResultRow(d))

\* The rows of the table whose product id was edited to one that no
\* last-known record carries, their old product id on no other edited row
Rekeyed(df, edits, edited_df) ==
    {i \in 1..Len(df) :
        /\ edits[i] = "rekey"
        /\ RecordsWithPid(df, OtherPid(df[i].ProductID)) = {}
        /\ RowsWithPid(edited_df, Strip(Str(df[i].ProductID))) = {}}

\* C30: a save never updates a record to another product id; a row re-keyed
\* from P to a new Q makes it insert Q and, after all rows, delete the
\* record P, the insert before the delete.
C30_RekeyIsInsertThenDelete ==
    lastOp = "save" =>
        /\ \A k \in 1..Len(ops) :
               ops[k].op = "update" =>
                   \A i \in 1..Len(args.df) :
                       args.df[i].id = ops[k].id =>
                           args.df[i].ProductID = ops[k].pid
        /\ \A i \in Rekeyed(args.df, args.edits, args.edited_df) :
               \E k, l \in 1..Len(ops) :
                   /\ k < l
                   /\ ops[k].op = "insert"
                   /\ ops[k].pid = OtherPid(args.df[i].ProductID)
                   /\ ops[l].op = "delete"
                   /\ args.df[i].id \in Range(ops[l].ids)
                   /\ l = Len(ops)

====
